---------------------------- MODULE Spec2Model ----------------------------
(***************************************************************************)
(* A model of granni_point_clouds (RAG_partial_scan.ipynb, cell 8): the    *)
(* GraNNI correspondence-recovery core.  The main thread copies the two    *)
(* meshes, generates and applies a random linear map, samples two point    *)
(* clouds, asserts num_x <= num_y, centers, builds the kernel projectors,  *)
(* zero-pads Px, runs n_iter randomized quadratic-assignment trials on a   *)
(* process pool (pool.map), sums the weighted permutation matrices,        *)
(* extracts a correspondence by linear assignment and estimates L0.        *)
(*                                                                         *)
(* Conventions.  numpy arrays are records [ndim, r, c, e] with e a         *)
(* function on (0..r-1) \X (0..c-1); index vectors are functions on        *)
(* 0..k-1 (the code's 0-based indices); Python lists are sequences, so     *)
(* vals[k] is the result of trial k-1.                                     *)
(*                                                                         *)
(* Real-valued data is not modelled numerically.  A point cloud is the     *)
(* record of what the pipeline reads from it: its number of points, the    *)
(* projector that ortho_proj_ker computes from it (a 0/1 diagonal          *)
(* projector of rank min(dim, k), the identity when k <= dim as the SVD    *)
(* gives), and whether X X^T is singular.  On such integer data the        *)
(* trace objective is an integer and exp(-1000 (t - dim)^2) is exactly     *)
(* 1.0 (t = dim) or underflows to exactly 0.0 (|t - dim| >= 1).            *)
(***************************************************************************)
EXTENDS Integers, Sequences, FiniteSets, TLC

\* ---------------------------------------------------------------- constants

\* dim = 3 (line 183)
dim == 3

\* mp.Pool(CPU_COUNT, maxtasksperchild=int(100)) (line 228)
maxtasksperchild == 100

\* Largest sample size (size_1, size_2) explored.
MaxPts == 4

\* Largest small n_iter explored (besides maxtasksperchild + 1).
MaxNIter == 2

\* Largest CPU_COUNT (worker-pool size) explored.
MaxPool == 2

\* Largest CPU_COUNT explored with maxtasksperchild + 1 trials.
MaxPoolManyTrials == 1

\* Iteration cap of the modelled quadratic-assignment heuristic.
FaqMaxIter == 1

Idx(k) == 0 .. (k - 1)

\* ------------------------------------------------------------ numpy arrays

\* An r x c array whose (i, j) entry is F(i, j).
Array(r, c, F(_, _)) ==
    [ndim |-> 2, r |-> r, c |-> c,
     e |-> [p \in Idx(r) \X Idx(c) |-> F(p[1], p[2])]]

\* The Python int 0 that sum() starts from: a 0-dimensional value.
Scalar(v) == [ndim |-> 0, r |-> 1, c |-> 1, e |-> [p \in {<<0, 0>>} |-> v]]

\* np.zeros((r, c))
Zeros(r, c) == Array(r, c, LAMBDA i, j : 0)

\* np.identity(k)
Identity(k) == Array(k, k, LAMBDA i, j : IF i = j THEN 1 ELSE 0)

\* A.T
Transpose(A) == Array(A.c, A.r, LAMBDA i, j : A.e[<<j, i>>])

RECURSIVE SumRange(_, _, _)
\* f[lo] + ... + f[hi-1], summed by halves.
SumRange(f, lo, hi) ==
    IF hi <= lo THEN 0
    ELSE IF hi = lo + 1 THEN f[lo]
    ELSE SumRange(f, lo, (lo + hi) \div 2) + SumRange(f, (lo + hi) \div 2, hi)

\* f[0] + ... + f[k-1]
SumFn(f, k) == SumRange(f, 0, k)

\* A @ B
MatMul(A, B) ==
    Array(A.r, B.c,
          LAMBDA i, j : SumFn([k \in Idx(A.c) |-> A.e[<<i, k>>] * B.e[<<k, j>>]], A.c))

\* np.trace(A)
Trace(A) == SumFn([k \in Idx(A.r) |-> A.e[<<k, k>>]], A.r)

\* np.block([[A, B], [C, D]]): rows of A and B side by side, above those of C, D.
Block(A, B, C, D) ==
    Array(A.r + C.r, A.c + B.c,
          LAMBDA i, j :
             IF i < A.r
             THEN (IF j < A.c THEN A.e[<<i, j>>] ELSE B.e[<<i, j - A.c>>])
             ELSE (IF j < C.c THEN C.e[<<i - A.r, j>>] ELSE D.e[<<i - A.r, j - C.c>>]))

\* I[ind]: row r of the result is row ind[r] of I.
TakeRows(I, ind, k) == Array(k, I.c, LAMBDA i, j : I.e[<<ind[i], j>>])

\* The permutations of 0..k-1, as index vectors.
Perms(k) == {p \in [Idx(k) -> Idx(k)] : \A i, j \in Idx(k) : i # j => p[i] # p[j]}

AllPerms == [k \in 0 .. (MaxPts + 1) |-> Perms(k)]

IsPerm(p, k) == DOMAIN p = Idx(k) /\ p \in AllPerms[k]

\* ------------------------------------------------- the random generator

(* The process-global generator np.random of one process: its state and,  *)
(* for the frame analysis, who wrote that state last: trial i, or -1 for   *)
(* a state inherited from the parent process at fork.  States are 0..15.  *)
Inherited == -1

RngNext(s) == (5 * s + 3) % 16

\* The state np.random.seed(i) sets: a function of i alone.
SeedState(i) == (7 * i + 1) % 16

ReseedSkipped(rng, i) == rng

\* np.random.seed(i) (line 220)
Reseed(rng, i) == [state |-> SeedState(i), writer |-> i]

\* One draw from 0..k-1 by trial i: the value and the advanced generator.
Draw(rng, k, i) ==
    [value |-> (RngNext(rng.state) \div 2) % k,
     rng   |-> [state |-> RngNext(rng.state), writer |-> i]]

\* ---------------------------------- opt.quadratic_assignment(method="faq")

\* p with the entries at positions a and b exchanged.
Swap(p, a, b) ==
    [x \in DOMAIN p |-> IF x = a THEN p[b] ELSE IF x = b THEN p[a] ELSE p[x]]

RECURSIVE Shuffle(_, _, _, _)
\* The randomized start ('P0': 'randomized'): a shuffle of 0..k-1 drawn from
\* the process-global generator, positions j, j-1, ..., 1.
Shuffle(p, j, rng, i) ==
    IF j < 1 THEN [perm |-> p, rng |-> rng]
    ELSE LET d == Draw(rng, j + 1, i)
         IN  Shuffle(Swap(p, j, d.value), j - 1, d.rng, i)

\* The objective of the permutation p: sum over a, b of A[a,b] * B[p[a],p[b]].
Objective(A, B, p) ==
    LET k == A.r
    IN  SumFn([t \in Idx(k * k) |->
                 A.e[<<t \div k, t % k>>] * B.e[<<p[t \div k], p[t % k]>>]], k * k)

\* The best of p and the permutations one exchange away from it: the
\* exchange of positions a < b that raises the objective most, the first
\* such pair in the order of (a, b) if several do, and p if none raises it.
BestSwap(A, B, p) ==
    LET k      == A.r
        here   == Objective(A, B, p)
        scored == {<<Objective(A, B, Swap(p, t \div k, t % k)), t>> :
                      t \in {u \in Idx(k * k) : u \div k < u % k}}
        better == {x \in scored : x[1] > here}
    IN  IF better = {} THEN p
        ELSE LET best == CHOOSE x \in better :
                            \A y \in better :
                               y[1] < x[1] \/ (y[1] = x[1] /\ x[2] <= y[2])
             IN  Swap(p, best[2] \div k, best[2] % k)

RECURSIVE Ascend(_, _, _, _)
\* The bounded maximizing iteration ('maximize': True, 'tol': 1e-3): it stops
\* as converged when an iteration no longer moves the iterate, and after
\* FaqMaxIter iterations returns the iterate it has, converged or not.
Ascend(A, B, p, it) ==
    IF it >= FaqMaxIter THEN [col_ind |-> p, nit |-> it, converged |-> FALSE]
    ELSE LET q == BestSwap(A, B, p)
         IN  IF q = p THEN [col_ind |-> p, nit |-> it + 1, converged |-> TRUE]
             ELSE Ascend(A, B, q, it + 1)

\* sol = opt.quadratic_assignment(Px, Py, method="faq", options=...) (lines
\* 221-222), run by trial i on the generator rng: always a result, whose
\* col_ind is a permutation, whether or not the iteration converged.
QuadraticAssignment(A, B, rng, i) ==
    LET start == Shuffle([x \in Idx(A.r) |-> x], A.r - 1, rng, i)
        sol   == Ascend(A, B, start.perm, 0)
    IN  [col_ind |-> sol.col_ind, nit |-> sol.nit, converged |-> sol.converged,
         rng |-> start.rng, readFrom |-> rng.writer]

\* ------------------------------------------------------------------ f_opt

\* np.trace(Px @ s @ Py @ s.T) (line 225)
TraceObjective(Px, s, Py) == Trace(MatMul(MatMul(MatMul(Px, s), Py), Transpose(s)))

\* np.exp(-1000.0*(t - dim)**2) for an integer t (line 225): exactly 1.0 at
\* t = dim, and 0.0 by underflow of exp(-1000 k^2), k >= 1, otherwise.
Weight(t) == IF t = dim THEN 1 ELSE 0

\* Lines 223-226 for the solver's answer ind: s = I[ind], the weight, and
\* the returned tuple (weight, s, i).
Scored(Px, Py, I, ind, i) ==
    LET s == TakeRows(I, ind, Py.r)
        t == TraceObjective(Px, s, Py)
    IN  [ind |-> ind, i |-> i, s |-> s, trace |-> t, weight |-> Weight(t)]

FOptRaisingUnconverged(Px, Py, I, rng, i) ==
    LET sol == QuadraticAssignment(Px, Py, Reseed(rng, i), i)
    IN  [converged |-> sol.converged, readFrom |-> sol.readFrom, rng |-> sol.rng,
         ok |-> sol.converged, val |-> Scored(Px, Py, I, sol.col_ind, i)]

\* f_opt(i) (lines 219-226) in a process whose generator is rng: the
\* outcome (ok: it returned, it has no raise of its own), the returned
\* tuple, and the generator it leaves behind in that process.
FOpt(Px, Py, I, rng, i) ==
    LET sol == QuadraticAssignment(Px, Py, Reseed(rng, i), i)
    IN  [converged |-> sol.converged, readFrom |-> sol.readFrom, rng |-> sol.rng,
         ok |-> TRUE, val |-> Scored(Px, Py, I, sol.col_ind, i)]

\* ------------------------------------------------ meshes and point clouds

\* The caller's mesh objects and the objects copy.deepcopy allocates.
MeshRefs == {"mesh_1", "mesh_2", "copy_1", "copy_2"}

NoRef == "none"

DeepCopyAliased(ref, fresh) == ref

\* copy.deepcopy(mesh) (lines 185-186): the reference to a fresh object.
DeepCopy(ref, fresh) == fresh

\* 0/1 diagonal projector on k points whose zero diagonal entries are zs.
DiagProj(k, zs) == Array(k, k, LAMBDA i, j : IF i = j /\ i \notin zs THEN 1 ELSE 0)

(* The clouds a sample of k points may be.  With k <= dim points the SVD   *)
(* of the dim x k matrix returns k singular values and the whole k x k Vh, *)
(* so the projector is the identity; a centered cloud of k <= dim points   *)
(* has rank below dim, so X X^T is singular.  With k > dim points the      *)
(* projector has rank dim and X X^T is singular for a flat sample only.    *)
Clouds(k) ==
    IF k <= dim
    THEN {[k |-> k, proj |-> Identity(k), singular |-> TRUE, centered |-> FALSE]}
    ELSE {[k |-> k, proj |-> DiagProj(k, o .. (o + k - dim - 1)),
           singular |-> sg, centered |-> FALSE] : o \in {0, 1}, sg \in BOOLEAN}

NoCloud == [k |-> 0, proj |-> Zeros(0, 0), singular |-> TRUE, centered |-> FALSE]

\* barycentered(A) (lines 64-68): a new array, A itself is not written.
Barycentered(A) == [A EXCEPT !.centered = TRUE]

\* ortho_proj_ker(X) (lines 119-126): Vx[:rank].T @ Vx[:rank] of the SVD.
OrthoProjKer(X) == X.proj

CardinalityUnchecked(nx, ny) == TRUE

\* assert(num_x <= num_y) (line 203)
CardinalityOk(nx, ny) == nx <= ny

PadPxTrailing(P, nx, ny) ==
    LET o  == Zeros(ny - nx, ny - nx)
        oo == Zeros(ny - nx, nx)
    IN  Block(o, oo, Transpose(oo), P)

PadPxShort(P, nx, ny) ==
    Array(ny, ny, LAMBDA i, j : IF i < nx - 1 /\ j < nx - 1 THEN P.e[<<i, j>>] ELSE 0)

\* Lines 213-215: o, oo and Px = np.block([[Px, oo.T], [oo, o]]).
PadPx(P, nx, ny) ==
    LET o  == Zeros(ny - nx, ny - nx)
        oo == Zeros(ny - nx, nx)
    IN  Block(P, Transpose(oo), oo, o)

\* ------------------------------------------------------- aggregation (231)

\* mat = sum([v[0]*v[1] for v in vals]) (line 231): Python's sum starts from
\* the int 0 and adds the terms left to right, so the sum of no terms is the
\* int 0 and entry (i, j) of a sum of matrices is the sum, in list order, of
\* the terms' entries (i, j).
Aggregate(vs) ==
    IF Len(vs) = 0 THEN Scalar(0)
    ELSE Array(vs[1].val.s.r, vs[1].val.s.c,
               LAMBDA i, j :
                  SumFn([k \in Idx(Len(vs)) |->
                           vs[k + 1].val.weight * vs[k + 1].val.s.e[<<i, j>>]], Len(vs)))

\* ------------------------------------------- opt.linear_sum_assignment (233)

\* The total weight the assignment p collects from M.
Assigned(M, p) == SumFn([i \in Idx(M.r) |-> M.e[<<i, p[i]>>]], M.r)

\* The rank of the index vector p in lexicographic order.
LexRank(p, k) == SumFn([i \in Idx(k) |-> p[i] * ((k + 1) ^ (k - 1 - i))], k)

RowArgmax(M) ==
    [i \in Idx(M.r) |->
        CHOOSE j \in Idx(M.c) :
            \A l \in Idx(M.c) :
                M.e[<<i, j>>] > M.e[<<i, l>>] \/ (M.e[<<i, j>>] = M.e[<<i, l>>] /\ j <= l)]

\* What the assignment p is ordered by: the weight it collects first, and
\* among assignments of equal weight the lexicographic order, first highest.
AssignmentKey(M, p) ==
    Assigned(M, p) * ((M.r + 1) ^ M.r) + (((M.r + 1) ^ M.r) - 1 - LexRank(p, M.r))

\* col_ind of opt.linear_sum_assignment(M, maximize=True) on a square M: an
\* assignment of every row to a column of its own that collects the most
\* weight; the solver is deterministic, and of the assignments of most
\* weight the model takes the first one in lexicographic order.
LinearSumAssignment(M) ==
    LET keys == {AssignmentKey(M, p) : p \in AllPerms[M.r]}
        top  == CHOOSE v \in keys : \A u \in keys : u <= v
    IN  CHOOSE p \in AllPerms[M.r] : AssignmentKey(M, p) = top

\* ------------------------------------------------------------- pool.map

\* The chunk size pool.map computes for n items on a pool of p processes:
\* chunksize, extra = divmod(n, 4 p); one more if extra; 0 for no items.
ChunkSize(n, p) ==
    IF n = 0 THEN 0
    ELSE (n \div (4 * p)) + (IF n % (4 * p) # 0 THEN 1 ELSE 0)

\* The number of task batches: n // chunksize + bool(n % chunksize).
NumChunks(n, p) ==
    IF n = 0 THEN 0
    ELSE (n \div ChunkSize(n, p)) + (IF n % ChunkSize(n, p) # 0 THEN 1 ELSE 0)

Min2(a, b) == IF a <= b THEN a ELSE b

RECURSIVE MapStar(_, _, _, _, _, _)
\* One task of pool.map: f_opt on the trials lo .. hi-1 of a chunk, one
\* after the other in one worker process, whose generator is rng (the run
\* of lo .. hi-1 is the run of its first half followed, on the generator
\* that leaves, by the run of its second half).  Each entry of out holds
\* the tuple f_opt returned (val) and, as history, whether the solver
\* converged and who wrote the generator state it read.
MapStar(px, py, eye, rng, lo, hi) ==
    IF hi <= lo THEN [ok |-> TRUE, out |-> << >>, rng |-> rng]
    ELSE IF hi = lo + 1
    THEN LET r == FOpt(px, py, eye, rng, lo)
         IN  [ok  |-> r.ok,
              out |-> <<[val |-> r.val, converged |-> r.converged,
                         readFrom |-> r.readFrom]>>,
              rng |-> r.rng]
    ELSE LET first  == MapStar(px, py, eye, rng, lo, (lo + hi) \div 2)
             second == MapStar(px, py, eye, first.rng, (lo + hi) \div 2, hi)
         IN  [ok  |-> first.ok /\ second.ok,
              out |-> first.out \o second.out,
              rng |-> second.rng]

CompletedCountingTrials(completed, ntrials) == completed + ntrials

\* completed += 1 in the worker loop, once per task (chunk) it has run.
CompletedAfter(completed, ntrials) == completed + 1

NoTask == [chunk |-> -1]

\* A worker process as forked: idle, nothing completed, the parent's generator.
FreshWorker(parentState, gen) ==
    [task |-> NoTask, completed |-> 0, ran |-> 0, trials |-> 0, gen |-> gen,
     rng |-> [state |-> parentState, writer |-> Inherited]]

\* ------------------------------------------------------------------ state

VARIABLES
    pc,           \* where the main thread of granni_point_clouds stands
    size_1,       \* argument size_1
    size_2,       \* argument size_2
    n_iter,       \* argument n_iter
    CPU_COUNT,    \* mp.cpu_count() (line 34)
    heap,         \* mesh objects: the transforms applied to each, in order
    temp_mesh_1,  \* reference held by temp_mesh_1
    temp_mesh_2,  \* reference held by temp_mesh_2
    np_random,    \* state of the parent process's np.random
    L,            \* the random linear map
    X, Y,         \* the point clouds
    num_x, num_y,
    Px, Py, I,
    proj_x,       \* history: ortho_proj_ker(X) before padding
    workers,      \* the pool's worker processes
    taskqueue,    \* task batches not yet taken by a worker
    results,      \* chunk number -> what its task put on the result queue
    vals,
    mat,
    row_ind, col_ind,
    L0,
    exits         \* history: the worker processes that exited, as recycled

vars == <<pc, size_1, size_2, n_iter, CPU_COUNT, heap, temp_mesh_1, temp_mesh_2,
          np_random, L, X, Y, num_x, num_y, Px, Py, I, proj_x, workers,
          taskqueue, results, vals, mat, row_ind, col_ind, L0, exits>>

\* A name not bound yet.
None == [ndim |-> -1, r |-> 0, c |-> 0, e |-> << >>]

\* The states np.random may be in when the function is entered (unseeded).
EntropyStates == {2, 11}

Unstarted ==
    /\ pc = "start"
    /\ heap = [m \in MeshRefs |-> << >>]
    /\ temp_mesh_1 = NoRef /\ temp_mesh_2 = NoRef
    /\ np_random \in EntropyStates
    /\ L = None
    /\ X = NoCloud /\ Y = NoCloud
    /\ num_x = 0 /\ num_y = 0
    /\ Px = None /\ Py = None /\ I = None /\ proj_x = None
    /\ workers = << >> /\ taskqueue = << >> /\ results = << >>
    /\ vals = << >> /\ mat = None
    /\ row_ind = << >> /\ col_ind = << >>
    /\ L0 = None
    /\ exits = {}

\* Small samples and trial counts on every pool size.
InitSmall ==
    /\ size_1 \in 1 .. MaxPts
    /\ size_2 \in 1 .. MaxPts
    /\ n_iter \in 0 .. MaxNIter
    /\ CPU_COUNT \in 1 .. MaxPool
    /\ Unstarted

\* One trial more than maxtasksperchild, on the smallest samples.
InitManyTrials ==
    /\ size_1 = 1
    /\ size_2 = 1
    /\ n_iter = maxtasksperchild + 1
    /\ CPU_COUNT \in 1 .. MaxPoolManyTrials
    /\ Unstarted

Init == InitSmall \/ InitManyTrials

\* ------------------------------------------------------- the main thread

\* Lines 185-186.
CopyMeshes ==
    /\ pc = "start"
    /\ temp_mesh_1' = DeepCopy("mesh_1", "copy_1")
    /\ temp_mesh_2' = DeepCopy("mesh_2", "copy_2")
    /\ heap' = [heap EXCEPT !["copy_1"] = heap["mesh_1"], !["copy_2"] = heap["mesh_2"]]
    /\ pc' = "copied"
    /\ UNCHANGED <<size_1, size_2, n_iter, CPU_COUNT, np_random, L, X, Y, num_x,
                   num_y, Px, Py, I, proj_x, workers, taskqueue, results, vals,
                   mat, row_ind, col_ind, L0, exits>>

\* Line 188: L = rand_mat_cond(dim, cond) draws from the parent's np.random
\* three times (lines 93, 94, 98).
GenerateTransform ==
    /\ pc = "copied"
    /\ L' = [drawn_from |-> np_random]
    /\ np_random' = RngNext(RngNext(RngNext(np_random)))
    /\ pc' = "generated"
    /\ UNCHANGED <<size_1, size_2, n_iter, CPU_COUNT, heap, temp_mesh_1,
                   temp_mesh_2, X, Y, num_x, num_y, Px, Py, I, proj_x, workers,
                   taskqueue, results, vals, mat, row_ind, col_ind, L0, exits>>

\* Lines 189-190: temp_mesh_2.transform(transformation), in place.
ApplyTransform ==
    /\ pc = "generated"
    /\ heap' = [heap EXCEPT ![temp_mesh_2] = Append(@, L)]
    /\ pc' = "transformed"
    /\ UNCHANGED <<size_1, size_2, n_iter, CPU_COUNT, temp_mesh_1, temp_mesh_2,
                   np_random, L, X, Y, num_x, num_y, Px, Py, I, proj_x, workers,
                   taskqueue, results, vals, mat, row_ind, col_ind, L0, exits>>

\* Lines 192-199: the two samples and their sizes.  Whether Y Y^T is
\* singular is read nowhere, so Y is drawn among the samples in general
\* position only.
SamplePoints ==
    /\ pc = "transformed"
    /\ X' \in Clouds(size_1)
    /\ Y' \in {c \in Clouds(size_2) : c.singular = (size_2 <= dim)}
    /\ num_x' = X'.k
    /\ num_y' = Y'.k
    /\ pc' = "sampled"
    /\ UNCHANGED <<size_1, size_2, n_iter, CPU_COUNT, heap, temp_mesh_1,
                   temp_mesh_2, np_random, L, Px, Py, I, proj_x, workers,
                   taskqueue, results, vals, mat, row_ind, col_ind, L0, exits>>

\* Lines 201-203: the assertions; the points are 3-dimensional, so the
\* cardinality assertion is the one that can fail.
CheckShapes ==
    /\ pc = "sampled"
    /\ pc' = IF CardinalityOk(num_x, num_y) THEN "checked" ELSE "AssertionError"
    /\ UNCHANGED <<size_1, size_2, n_iter, CPU_COUNT, heap, temp_mesh_1,
                   temp_mesh_2, np_random, L, X, Y, num_x, num_y, Px, Py, I,
                   proj_x, workers, taskqueue, results, vals, mat, row_ind,
                   col_ind, L0, exits>>

\* Lines 209-210.
Center ==
    /\ pc = "checked"
    /\ X' = Barycentered(X)
    /\ Y' = Barycentered(Y)
    /\ pc' = "centered"
    /\ UNCHANGED <<size_1, size_2, n_iter, CPU_COUNT, heap, temp_mesh_1,
                   temp_mesh_2, np_random, L, num_x, num_y, Px, Py, I, proj_x,
                   workers, taskqueue, results, vals, mat, row_ind, col_ind, L0,
                   exits>>

\* Line 212.
ProjectX ==
    /\ pc = "centered"
    /\ Px' = OrthoProjKer(X)
    /\ proj_x' = OrthoProjKer(X)
    /\ pc' = "projected"
    /\ UNCHANGED <<size_1, size_2, n_iter, CPU_COUNT, heap, temp_mesh_1,
                   temp_mesh_2, np_random, L, X, Y, num_x, num_y, Py, I, workers,
                   taskqueue, results, vals, mat, row_ind, col_ind, L0, exits>>

\* Lines 213-215.
PadX ==
    /\ pc = "projected"
    /\ Px' = PadPx(Px, num_x, num_y)
    /\ pc' = "padded"
    /\ UNCHANGED <<size_1, size_2, n_iter, CPU_COUNT, heap, temp_mesh_1,
                   temp_mesh_2, np_random, L, X, Y, num_x, num_y, Py, I, proj_x,
                   workers, taskqueue, results, vals, mat, row_ind, col_ind, L0,
                   exits>>

\* Lines 216-217.
ProjectY ==
    /\ pc = "padded"
    /\ Py' = OrthoProjKer(Y)
    /\ I' = Identity(num_y)
    /\ pc' = "ready"
    /\ UNCHANGED <<size_1, size_2, n_iter, CPU_COUNT, heap, temp_mesh_1,
                   temp_mesh_2, np_random, L, X, Y, num_x, num_y, Px, proj_x,
                   workers, taskqueue, results, vals, mat, row_ind, col_ind, L0,
                   exits>>

\* --------------------------------------------------------------- the pool

Workers == 1 .. CPU_COUNT

\* Line 228: mp.Pool(CPU_COUNT, maxtasksperchild=100) forks the workers; each
\* starts with the generator state the parent has at that moment.
OpenPool ==
    /\ pc = "ready"
    /\ workers' = [w \in Workers |-> FreshWorker(np_random, 0)]
    /\ pc' = "pool"
    /\ UNCHANGED <<size_1, size_2, n_iter, CPU_COUNT, heap, temp_mesh_1,
                   temp_mesh_2, np_random, L, X, Y, num_x, num_y, Px, Py, I,
                   proj_x, taskqueue, results, vals, mat, row_ind, col_ind, L0,
                   exits>>

\* Line 229, the call: pool.map cuts range(n_iter) into chunks and queues one
\* task per chunk; a task carries f_opt pickled with its closure, that is
\* its own copies of Px, Py and I.
MapDispatch ==
    /\ pc = "pool"
    /\ taskqueue' =
          [c \in 1 .. NumChunks(n_iter, CPU_COUNT) |->
              [chunk |-> c - 1,
               lo    |-> (c - 1) * ChunkSize(n_iter, CPU_COUNT),
               hi    |-> Min2(c * ChunkSize(n_iter, CPU_COUNT), n_iter),
               Px |-> Px, Py |-> Py, I |-> I]]
    /\ results' = << >>
    /\ pc' = "map"
    /\ UNCHANGED <<size_1, size_2, n_iter, CPU_COUNT, heap, temp_mesh_1,
                   temp_mesh_2, np_random, L, X, Y, num_x, num_y, Px, Py, I,
                   proj_x, workers, vals, mat, row_ind, col_ind, L0, exits>>

\* Worker processes in the same state are interchangeable: which of them
\* takes a task changes nothing but the numbering, so the lowest-numbered
\* one of them stands for all.
FirstOfItsKind(w) == \A v \in 1 .. (w - 1) : workers[v] # workers[w]

\* A worker's task = get(): an idle worker takes the oldest queued task.
TakeTask(w) ==
    /\ pc = "map"
    /\ w \in Workers
    /\ workers[w].task = NoTask
    /\ FirstOfItsKind(w)
    /\ taskqueue # << >>
    /\ workers' = [workers EXCEPT ![w].task = Head(taskqueue)]
    /\ taskqueue' = Tail(taskqueue)
    /\ UNCHANGED <<pc, size_1, size_2, n_iter, CPU_COUNT, heap, temp_mesh_1,
                   temp_mesh_2, np_random, L, X, Y, num_x, num_y, Px, Py, I,
                   proj_x, results, vals, mat, row_ind, col_ind, L0, exits>>

\* The worker runs its task (f_opt on every trial of the chunk), puts the
\* result, counts the task, and exits once it has completed maxtasksperchild
\* tasks; the pool then forks a fresh worker in its place.
FinishTask(w) ==
    /\ pc = "map"
    /\ w \in Workers
    /\ workers[w].task # NoTask
    /\ LET me   == workers[w]
           t    == me.task
           r    == MapStar(t.Px, t.Py, t.I, me.rng, t.lo, t.hi)
           done == CompletedAfter(me.completed, t.hi - t.lo)
           ran  == [tasks |-> me.ran + 1, trials |-> me.trials + (t.hi - t.lo)]
       IN  /\ results' = results @@ (t.chunk :> [ok |-> r.ok, out |-> r.out])
           /\ IF done >= maxtasksperchild
              THEN /\ workers' = [workers EXCEPT ![w] = FreshWorker(np_random, me.gen + 1)]
                   /\ exits' = exits \cup {ran}
              ELSE /\ workers' = [workers EXCEPT ![w] =
                                    [task |-> NoTask, completed |-> done,
                                     ran |-> ran.tasks, trials |-> ran.trials,
                                     gen |-> me.gen, rng |-> r.rng]]
                   /\ exits' = exits
    /\ UNCHANGED <<pc, size_1, size_2, n_iter, CPU_COUNT, heap, temp_mesh_1,
                   temp_mesh_2, np_random, L, X, Y, num_x, num_y, Px, Py, I,
                   proj_x, taskqueue, vals, mat, row_ind, col_ind, L0>>

RECURSIVE Flatten(_, _)
\* The chunks' results 0 .. k-1 one after the other, in chunk order.
Flatten(res, k) == IF k = 0 THEN << >> ELSE Flatten(res, k - 1) \o res[k - 1].out

\* Line 229, the return: pool.map returns once every chunk's result is in,
\* the list in the order of range(n_iter), or raises what a task raised;
\* leaving the with block terminates the pool's workers.
MapReturn ==
    /\ pc = "map"
    /\ DOMAIN results = Idx(NumChunks(n_iter, CPU_COUNT))
    /\ IF \A c \in DOMAIN results : results[c].ok
       THEN /\ vals' = Flatten(results, NumChunks(n_iter, CPU_COUNT))
            /\ pc' = "joined"
       ELSE /\ vals' = vals
            /\ pc' = "map_raised"
    /\ workers' = << >>
    /\ UNCHANGED <<size_1, size_2, n_iter, CPU_COUNT, heap, temp_mesh_1,
                   temp_mesh_2, np_random, L, X, Y, num_x, num_y, Px, Py, I,
                   proj_x, taskqueue, results, mat, row_ind, col_ind, L0, exits>>

\* Line 231.
SumWeighted ==
    /\ pc = "joined"
    /\ mat' = Aggregate(vals)
    /\ pc' = "aggregated"
    /\ UNCHANGED <<size_1, size_2, n_iter, CPU_COUNT, heap, temp_mesh_1,
                   temp_mesh_2, np_random, L, X, Y, num_x, num_y, Px, Py, I,
                   proj_x, workers, taskqueue, results, vals, row_ind, col_ind,
                   L0, exits>>

\* Line 233: linear_sum_assignment raises ValueError unless mat is a matrix
\* (sum of no terms is the int 0).
ExtractCorrespondence ==
    /\ pc = "aggregated"
    /\ IF mat.ndim = 2
       THEN /\ row_ind' = [i \in Idx(mat.r) |-> i]
            /\ col_ind' = LinearSumAssignment(mat)
            /\ pc' = "assigned"
       ELSE /\ row_ind' = row_ind
            /\ col_ind' = col_ind
            /\ pc' = "ValueError"
    /\ UNCHANGED <<size_1, size_2, n_iter, CPU_COUNT, heap, temp_mesh_1,
                   temp_mesh_2, np_random, L, X, Y, num_x, num_y, Px, Py, I,
                   proj_x, workers, taskqueue, results, vals, mat, L0, exits>>

\* Y[:, col_ind][:, :num_x] (line 235): the columns of Y matched to X's points.
Matched(ci, nx) == [a \in Idx(nx) |-> ci[a]]

\* Lines 235-237: L0 from the matched columns and inv(X @ X.T), and the
\* return.  On a singular X X^T the inversion raises LinAlgError when the
\* factorization meets an exact zero pivot and returns an unstable inverse
\* when rounding leaves the pivot nonzero.
EstimateMap ==
    /\ pc = "assigned"
    /\ \E raised \in (IF X.singular THEN BOOLEAN ELSE {FALSE}) :
          IF raised
          THEN /\ L0' = L0
               /\ pc' = "LinAlgError"
          ELSE /\ L0' = [matched |-> Matched(col_ind, num_x), stable |-> ~X.singular]
               /\ pc' = "returned"
    /\ UNCHANGED <<size_1, size_2, n_iter, CPU_COUNT, heap, temp_mesh_1,
                   temp_mesh_2, np_random, L, X, Y, num_x, num_y, Px, Py, I,
                   proj_x, workers, taskqueue, results, vals, mat, row_ind,
                   col_ind, exits>>

MainStep ==
    \/ CopyMeshes
    \/ GenerateTransform
    \/ ApplyTransform
    \/ SamplePoints
    \/ CheckShapes
    \/ Center
    \/ ProjectX
    \/ PadX
    \/ ProjectY
    \/ OpenPool
    \/ MapDispatch
    \/ MapReturn
    \/ SumWeighted
    \/ ExtractCorrespondence
    \/ EstimateMap

WorkerStep(w) == TakeTask(w) \/ FinishTask(w)

Next == MainStep \/ \E w \in 1 .. MaxPool : WorkerStep(w)

Spec == Init /\ [][Next]_vars

\* ------------------------------------------------- stages and references

\* pool.map has returned.
AfterJoin == pc \in {"joined", "aggregated", "assigned", "ValueError", "returned", "LinAlgError"}

\* Line 231 has run.
AfterSum == pc \in {"aggregated", "assigned", "ValueError", "returned", "LinAlgError"}

\* Line 233 has returned.
AfterAssign == pc \in {"assigned", "returned", "LinAlgError"}

\* Trial i run alone in a process of its own, forked with generator state 0.
RefTrial(px, py, eye, i) ==
    LET r == FOpt(px, py, eye, [state |-> 0, writer |-> Inherited], i)
    IN  [val |-> r.val, converged |-> r.converged, readFrom |-> r.readFrom]

\* The trials 0 .. n-1, each run alone, in the order of range(n).
RefVals(px, py, eye, n) == [k \in 1 .. n |-> RefTrial(px, py, eye, k - 1)]

\* The matrix summed from those.
RefMat(px, py, eye, n) == Aggregate(RefVals(px, py, eye, n))

HasWeight(M) == M.ndim = 2 /\ \E p \in DOMAIN M.e : M.e[p] > 0

\* ------------------------------------------------------------------- C1

\* C1: for fixed Px, Py and n_iter the aggregated matrix and the
\* correspondence extracted from it are the same in every execution: they
\* equal what the trials 0..n_iter-1 give when each is run alone and summed
\* in index order, whatever the pool size, the generator state the process
\* was entered with, the assignment of chunks to workers, the completion
\* order, and the trials a worker ran before.
C1_Deterministic ==
    LET ref == RefMat(Px, Py, I, n_iter)
    IN  /\ AfterSum => mat = ref
        /\ AfterAssign => col_ind = LinearSumAssignment(ref)

\* A run of several trials on a pool of several workers that ended in a
\* correspondence extracted from a matrix that carries weight.
C1_Witness ==
    /\ pc = "assigned"
    /\ n_iter >= 2
    /\ CPU_COUNT >= 2
    /\ HasWeight(mat)
    /\ \E k \in 1 .. Len(vals) : vals[k].val.ind # [x \in Idx(num_y) |-> x]

\* ------------------------------------------------------------------- C2

\* C2: the correspondence extraction returns a full permutation of
\* 0..m-1 with the rows listed in order 0..m-1, also from the all-zero
\* matrix, so the first n entries of col_ind are n pairwise distinct
\* indices of Y.
C2_FullPermutation ==
    AfterAssign =>
        /\ IsPerm(col_ind, num_y)
        /\ row_ind = [i \in Idx(num_y) |-> i]
        /\ \A a \in Idx(num_x) : col_ind[a] \in Idx(num_y)
        /\ \A a, b \in Idx(num_x) : a # b => col_ind[a] # col_ind[b]
        /\ pc = "returned" => L0.matched = [a \in Idx(num_x) |-> col_ind[a]]

\* A correspondence extracted from the all-zero matrix, with fewer points
\* in X than in Y.
C2_Witness ==
    /\ pc = "assigned"
    /\ num_x < num_y
    /\ num_y >= 2
    /\ n_iter >= 1
    /\ mat = Zeros(num_y, num_y)

\* ------------------------------------------------------------------- C3

\* C3 as stated: when cardinality(X) > cardinality(Y) nothing is computed:
\* no transform is generated or applied, nothing is centered, no projector
\* is built, nothing is dispatched and nothing is returned.
C3_NoComputationAtAll ==
    size_1 > size_2 =>
        /\ L = None
        /\ heap["copy_2"] = << >>
        /\ ~X.centered /\ ~Y.centered
        /\ Px = None /\ Py = None
        /\ workers = << >> /\ taskqueue = << >>
        /\ L0 = None

\* C3: when cardinality(X) > cardinality(Y) the invocation stops at the
\* assertion of line 203: it gets no further than sampling, so it centers
\* nothing, builds no projector, opens no pool, dispatches no trial, returns
\* no result, and leaves the caller's meshes as they were.
C3_RejectedBeforeCentering ==
    size_1 > size_2 =>
        /\ pc \in {"start", "copied", "generated", "transformed", "sampled",
                   "AssertionError"}
        /\ ~X.centered /\ ~Y.centered
        /\ Px = None /\ Py = None /\ I = None
        /\ workers = << >> /\ taskqueue = << >> /\ results = << >>
        /\ vals = << >> /\ mat = None /\ L0 = None
        /\ heap["mesh_1"] = << >> /\ heap["mesh_2"] = << >>

\* The assertion has failed, after the transform was generated and applied
\* to the copy of the second mesh and both clouds were sampled.
C3_Witness ==
    /\ pc = "AssertionError"
    /\ num_x > num_y
    /\ L # None
    /\ heap["copy_2"] = <<L>>
    /\ X # NoCloud

\* ------------------------------------------------------------------- C4

\* The input is degenerate: a cloud of fewer than dim points, or X X^T singular.
Degenerate == X # NoCloud /\ (num_x < dim \/ num_y < dim \/ X.singular)

\* C4 as stated: on a degenerate input nothing is dispatched to the pool
\* and no trial runs; the invocation never gets to the trials and fails
\* only afterwards.
C4_AbortsBeforeDispatch ==
    Degenerate =>
        /\ pc \notin {"map", "map_raised", "joined", "aggregated", "assigned",
                      "ValueError", "returned", "LinAlgError"}
        /\ taskqueue = << >>
        /\ results = << >>

\* ------------------------------------------------------------------- C5

\* The trials of chunk number c.
ChunkLen(c) ==
    Min2((c + 1) * ChunkSize(n_iter, CPU_COUNT), n_iter) - c * ChunkSize(n_iter, CPU_COUNT)

\* C5: no trial aborts the batch, converged or not: pool.map never raises,
\* every chunk returns one tuple per trial of it, the joined list holds for
\* every trial index i the very pair that trial i yields when run alone, in
\* index order, and the aggregate is the sum over all of them.
C5_BatchSurvivesTrialFaults ==
    /\ pc # "map_raised"
    /\ \A c \in DOMAIN results :
          results[c].ok /\ Len(results[c].out) = ChunkLen(c)
    /\ AfterJoin =>
          /\ Len(vals) = n_iter
          /\ \A k \in 1 .. Len(vals) :
                /\ vals[k].val.i = k - 1
                /\ vals[k] = RefTrial(Px, Py, I, k - 1)
    /\ AfterSum => mat = Aggregate(vals)

\* A batch that completed and was summed although the optimizer of one of
\* its trials did not converge, next to a trial whose optimizer did.
C5_Witness ==
    /\ pc = "aggregated"
    /\ \E k \in 1 .. Len(vals) : ~vals[k].converged
    /\ \E k \in 1 .. Len(vals) : vals[k].converged

\* ------------------------------------------------------------------- C6

\* Nothing of lines 231-235 has started before pool.map returned, and when
\* it returned every chunk's result was in and no task was left.
JoinAllBarrier ==
    /\ ~AfterJoin => mat = None /\ col_ind = << >> /\ L0 = None
    /\ AfterJoin =>
          /\ taskqueue = << >>
          /\ DOMAIN results = Idx(NumChunks(n_iter, CPU_COUNT))

\* The joined list holds one result for each trial index, in order.
ExactlyOnce ==
    AfterJoin =>
        /\ Len(vals) = n_iter
        /\ \A k \in 1 .. Len(vals) : vals[k].val.i = k - 1

\* C6 as stated: aggregation, assignment and estimation start only after
\* all n_iter trials completed, the aggregate consumes exactly one result
\* per trial index, and the invocation goes on to return: it never ends in
\* an error once its trials are dispatched.
C6_JoinAllThenReturn ==
    /\ JoinAllBarrier
    /\ ExactlyOnce
    /\ pc \notin {"map_raised", "ValueError", "LinAlgError"}

\* ------------------------------------------------------------------- C7

\* C7 as stated: no worker process runs more than maxtasksperchild trials
\* in its lifetime.
C7_TrialsPerWorkerCapped ==
    /\ \A w \in DOMAIN workers : workers[w].trials <= maxtasksperchild
    /\ \A e \in exits : e.trials <= maxtasksperchild

\* C7: the cap counts tasks, that is chunks of pool.map, not trials: a
\* worker process has completed fewer than maxtasksperchild chunks while it
\* lives, is replaced exactly when it has completed maxtasksperchild of
\* them, and has run at most chunksize trials per chunk.
C7_CapCountsChunks ==
    /\ \A w \in DOMAIN workers :
          /\ workers[w].completed < maxtasksperchild
          /\ workers[w].completed = workers[w].ran
          /\ workers[w].trials <= workers[w].ran * ChunkSize(n_iter, CPU_COUNT)
    /\ \A e \in exits : e.tasks = maxtasksperchild

\* A worker process of the pool's first generation, never replaced, that
\* has run more than maxtasksperchild trials.
C7_Witness ==
    \E w \in DOMAIN workers :
        /\ workers[w].trials > maxtasksperchild
        /\ workers[w].gen = 0
        /\ workers[w].ran < maxtasksperchild

\* ------------------------------------------------------------------- C8

\* C8: when num_x = num_y the padded Px is the unpadded projector, entry
\* for entry and of the same shape, and every trial result, the aggregated
\* matrix and the correspondence are those computed from the unpadded one.
C8_EqualSizesPaddingNoOp ==
    (num_x = num_y /\ (AfterJoin \/ pc \in {"padded", "ready", "pool", "map"})) =>
        LET unpadded == RefVals(proj_x, Py, I, n_iter)
        IN  /\ Px = proj_x
            /\ Px.r = num_x /\ Px.c = num_x
            /\ AfterJoin => vals = unpadded
            /\ AfterSum => mat = Aggregate(unpadded)
            /\ AfterAssign => col_ind = LinearSumAssignment(Aggregate(unpadded))

\* A correspondence extracted for two clouds of the same size, from
\* trials that carried weight.
C8_Witness ==
    /\ pc = "assigned"
    /\ num_x = num_y
    /\ num_x >= 2
    /\ n_iter >= 1
    /\ HasWeight(mat)

\* ------------------------------------------------------------------- C9

\* C9: the caller's meshes are never written; Px, Py and I stay what they
\* were built as; every task, queued or running, holds copies equal to
\* them; and the generator state each trial's solver read was written by
\* that trial itself, never by another trial or inherited.
C9_NoSharedMutableState ==
    /\ heap["mesh_1"] = << >> /\ heap["mesh_2"] = << >>
    /\ (AfterJoin \/ pc \in {"ready", "pool", "map"}) =>
          /\ Px = PadPx(proj_x, num_x, num_y)
          /\ Py = OrthoProjKer(Y)
          /\ I = Identity(num_y)
    /\ \A k \in 1 .. Len(taskqueue) :
          taskqueue[k].Px = Px /\ taskqueue[k].Py = Py /\ taskqueue[k].I = I
    /\ \A w \in DOMAIN workers :
          workers[w].task # NoTask =>
             /\ workers[w].task.Px = Px
             /\ workers[w].task.Py = Py
             /\ workers[w].task.I = I
    /\ \A c \in DOMAIN results :
          \A k \in 1 .. Len(results[c].out) :
             results[c].out[k].readFrom = results[c].out[k].val.i

\* A worker that has run a trial holds a later one, after the transform was
\* applied to the copy of the second mesh.
C9_Witness ==
    /\ pc = "map"
    /\ heap["copy_2"] # << >>
    /\ results # << >>
    /\ \E w \in DOMAIN workers :
          workers[w].task # NoTask /\ workers[w].trials >= 1

\* ------------------------------------------------------------------ C10

\* Largest sample size explored for the trace objective on general matrices.
MaxAlgPts == 3

\* A k x k matrix with entries in 0..2, neither symmetric nor diagonal.
GenMat(k, a, b) == Array(k, k, LAMBDA i, j : (a * i + b * j + i * j + 1) % 3)

\* Centered clouds of k points whose projector is a general matrix.
AlgClouds(k) ==
    {[k |-> k, proj |-> GenMat(k, a, b), singular |-> FALSE, centered |-> TRUE] :
        a \in {0, 1}, b \in {1, 2}}

\* The state after line 210 for clouds with num_x <= num_y.
InitAlg ==
    /\ pc = "centered"
    /\ size_1 \in 1 .. MaxAlgPts
    /\ size_2 \in 1 .. MaxAlgPts
    /\ size_1 <= size_2
    /\ n_iter = 1
    /\ CPU_COUNT = 1
    /\ np_random \in {RngNext(RngNext(RngNext(s))) : s \in EntropyStates}
    /\ L \in {[drawn_from |-> s] : s \in EntropyStates}
    /\ np_random = RngNext(RngNext(RngNext(L.drawn_from)))
    /\ heap = [m \in MeshRefs |-> IF m = "copy_2" THEN <<L>> ELSE << >>]
    /\ temp_mesh_1 = "copy_1" /\ temp_mesh_2 = "copy_2"
    /\ X \in AlgClouds(size_1)
    /\ Y \in AlgClouds(size_2)
    /\ num_x = size_1 /\ num_y = size_2
    /\ Px = None /\ Py = None /\ I = None /\ proj_x = None
    /\ workers = << >> /\ taskqueue = << >> /\ results = << >>
    /\ vals = << >> /\ mat = None
    /\ row_ind = << >> /\ col_ind = << >>
    /\ L0 = None
    /\ exits = {}

\* Lines 223-226 of one trial for an answer ind of the solver, which may be
\* any permutation of 0..num_y-1.
ScoreCandidate ==
    /\ pc = "ready"
    /\ vals = << >>
    /\ \E ind \in AllPerms[num_y] :
          vals' = <<[val |-> Scored(Px, Py, I, ind, 0), converged |-> TRUE,
                     readFrom |-> 0]>>
    /\ UNCHANGED <<pc, size_1, size_2, n_iter, CPU_COUNT, heap, temp_mesh_1,
                   temp_mesh_2, np_random, L, X, Y, num_x, num_y, Px, Py, I,
                   proj_x, workers, taskqueue, results, mat, row_ind, col_ind,
                   L0, exits>>

NextAlg == ProjectX \/ PadX \/ ProjectY \/ ScoreCandidate

SpecAlg == InitAlg /\ [][NextAlg]_vars

\* q and ind send the indices of X's points to the same indices of Y.
AgreeOnX(q, ind) == \A a \in Idx(num_x) : q[a] = ind[a]

\* C10: with Px zero-padded to num_y x num_y, two permutations that agree
\* on the indices 0..num_x-1 give the same trace(Px S Py S^T) and so the
\* same weight, whatever Py is: where the padding indices are sent does not
\* change a trial's score.
C10_PaddingIndicesContributeNothing ==
    \A k \in 1 .. Len(vals) :
        \A q \in AllPerms[num_y] :
            AgreeOnX(q, vals[k].val.ind) =>
                LET other == Scored(Px, Py, I, q, vals[k].val.i)
                IN  /\ other.trace = vals[k].val.trace
                    /\ other.weight = vals[k].val.weight

\* A scored candidate with padding indices, a nonzero trace, and another
\* permutation that agrees with it on X's indices only.
C10_Witness ==
    /\ pc = "ready"
    /\ num_x < num_y
    /\ Len(vals) = 1
    /\ vals[1].val.trace > 0
    /\ \E q \in AllPerms[num_y] :
          /\ q # vals[1].val.ind
          /\ AgreeOnX(q, vals[1].val.ind)
          /\ Py.e[<<q[num_x], q[num_x]>>] # Py.e[<<vals[1].val.ind[num_x], vals[1].val.ind[num_x]>>]
=============================================================================
